---- MODULE Spec2Model ----
(***************************************************************************)
(* github-activity (src/github-activity/main.go): one run of the command   *)
(* line tool.  main checks its arguments, fetchEvents performs one HTTP    *)
(* exchange and decodes the body, and main prints one line per event as    *)
(* formatEvent renders it.                                                 *)
(*                                                                         *)
(* Representation.  Strings the program only compares, tests for emptiness *)
(* and concatenates (type tag, repository name, ref_type, user name) are   *)
(* TLA+ strings.  Strings the program looks into byte by byte (the action  *)
(* handed to verbCap, the ref handed to %q) are sequences of byte values,  *)
(* turned into text by Str.  A JSON document is represented by its parse:  *)
(* a record whose field k is the kind of value.                            *)
(***************************************************************************)
EXTENDS Integers, Sequences, FiniteSets, TLC

VARIABLES
    pc,        \* position of the run: "main", "fetch", "do", "read", "fetched", "loop", "exit"
    args,      \* os.Args, program name included
    username,  \* main's username (os.Args[1])
    clock,     \* seconds elapsed on the client's timer since client.Do was called
    requests,  \* number of calls of client.Do so far
    res,       \* the *http.Response client.Do returned, NoResponse before
    body,      \* the bytes io.ReadAll returned, NoBody before
    result,    \* what fetchEvents returned: [events, err]
    events,    \* main's events
    i,         \* index of the next event of main's range loop (1-based)
    lines,     \* the value of main's line for every call of formatEvent so far
    calls,     \* the argument of every call of formatEvent so far
    stdout,    \* lines written to standard output
    stderr,    \* lines written to the error stream
    exitCode   \* <<>> while the process runs, <<code>> once it has exited

vars == <<pc, args, username, clock, requests, res, body, result, events, i,
          lines, calls, stdout, stderr, exitCode>>

-----------------------------------------------------------------------------
(* Bounds of the model *)

MaxEvents == 2    \* longest JSON array of events in a response body
MaxCommits == 2   \* longest commits array in a payload

-----------------------------------------------------------------------------
(* Bytes and text *)

Lower == <<"a","b","c","d","e","f","g","h","i","j","k","l","m",
           "n","o","p","q","r","s","t","u","v","w","x","y","z">>
Upper == <<"A","B","C","D","E","F","G","H","I","J","K","L","M",
           "N","O","P","Q","R","S","T","U","V","W","X","Y","Z">>
Digit == <<"0","1","2","3","4","5","6","7","8","9">>

\* The one-character string of an ASCII byte (the bytes the model uses).
Chr(b) ==
    IF b \in 97..122 THEN Lower[b - 96]
    ELSE IF b \in 65..90 THEN Upper[b - 64]
    ELSE IF b \in 48..57 THEN Digit[b - 47]
    ELSE IF b = 34 THEN "\""
    ELSE IF b = 92 THEN "\\"
    ELSE IF b = 95 THEN "_"
    ELSE IF b = 123 THEN "{"
    ELSE "?"

\* string(b): the text of a byte sequence.
RECURSIVE Str(_)
Str(b) == IF b = <<>> THEN "" ELSE Chr(Head(b)) \o Str(Tail(b))

\* Byte sequences used as inputs.
B_opened == <<111, 112, 101, 110, 101, 100>>      \* "opened"
B_closed == <<99, 108, 111, 115, 101, 100>>       \* "closed"
B_merged == <<109, 101, 114, 103, 101, 100>>      \* "merged"
B_Opened == <<79, 112, 101, 110, 101, 100>>       \* "Opened"
B_123abc == <<49, 50, 51, 97, 98, 99>>            \* "123abc"
B_zed == <<122, 101, 100>>                        \* "zed"
B_a == <<97>>                                     \* "a"
B_under == <<95, 97>>                             \* "_a": a byte below the lower-case letters
B_brace == <<123, 97>>                            \* "{a": the byte just above the lower-case letters
B_main == <<109, 97, 105, 110>>                   \* "main"
B_quoted == <<97, 34, 98, 92, 99>>                \* a, double quote, b, backslash, c

Actions == {B_opened, B_closed, B_merged, B_Opened, B_123abc, B_zed, B_a,
            B_under, B_brace}
Refs == {B_main, B_quoted}
RefTypes == {"repository", "branch", "tag"}
Types == {"PushEvent", "IssuesEvent", "IssueCommentEvent", "PullRequestEvent",
          "WatchEvent", "ForkEvent", "CreateEvent", "GollumEvent", ""}
Repos == {"", "octocat/hello"}

-----------------------------------------------------------------------------
(* JSON values, by kind.  "absent": the key is not in the object (for a     *)
(* payload: Event.Payload is nil); "null": the literal null; "bad": a valid *)
(* JSON value of a kind the Go field cannot take.                           *)

Absent == [k |-> "absent"]
Null == [k |-> "null"]
Bad == [k |-> "bad"]
JStr(s) == [k |-> "string", s |-> s]
JBool(b) == [k |-> "bool", b |-> b]
JCommits(n) == [k |-> "array", n |-> n]          \* n objects {"sha": "..."}
JPull(merged) == [k |-> "object", merged |-> merged]
JPayload(commits, action, pull, reftype, ref) ==
    [k |-> "object", commits |-> commits, action |-> action,
     pull_request |-> pull, ref_type |-> reftype, ref |-> ref]

NonValues == {Absent, Null, Bad}
CommitsValues == NonValues \cup {JCommits(n) : n \in 0..MaxCommits}
ActionValues == NonValues \cup {JStr(<<>>)} \cup {JStr(a) : a \in Actions}
MergedValues == NonValues \cup {JBool(TRUE), JBool(FALSE)}
PullValues == NonValues \cup {JPull(m) : m \in MergedValues}
RefTypeValues == NonValues \cup {JStr("")} \cup {JStr(t) : t \in RefTypes}
RefValues == NonValues \cup {JStr(<<>>)} \cup {JStr(r) : r \in Refs}

\* Payloads: no payload, null, a non-object, and objects that vary the
\* fields one payload type reads (with and without an ill-typed field of
\* another payload type next to them).
Payloads ==
    NonValues
    \cup {JPayload(c, a, Absent, Absent, Absent) :
            c \in CommitsValues, a \in {Absent, Bad}}
    \cup {JPayload(c, a, p, Absent, Absent) :
            c \in {Absent, Bad}, a \in ActionValues, p \in PullValues}
    \cup {JPayload(Absent, a, Absent, t, r) :
            a \in {Absent, Bad}, t \in RefTypeValues, r \in RefValues}

-----------------------------------------------------------------------------
(* encoding/json, as main.go uses it *)

\* A JSON value stored into a Go string field: ok is FALSE on a type error.
DecodeString(v) ==
    IF v.k = "string" THEN [ok |-> TRUE, v |-> v.s]
    ELSE IF v.k = "bad" THEN [ok |-> FALSE, v |-> <<>>]
    ELSE [ok |-> TRUE, v |-> <<>>]

\* The same for a field whose text the program never looks into.
DecodeText(v) ==
    IF v.k = "string" THEN [ok |-> TRUE, v |-> v.s]
    ELSE IF v.k = "bad" THEN [ok |-> FALSE, v |-> ""]
    ELSE [ok |-> TRUE, v |-> ""]

DecodeBool(v) ==
    IF v.k = "bool" THEN [ok |-> TRUE, v |-> v.b]
    ELSE IF v.k = "bad" THEN [ok |-> FALSE, v |-> FALSE]
    ELSE [ok |-> TRUE, v |-> FALSE]

\* json.Unmarshal(payload, &p) for p PushPayload.  err: nil bytes are a
\* syntax error, a non-object or an ill-typed commits is a type error; null
\* and unknown keys leave p as it is.
UnmarshalPush(payload) ==
    IF payload.k \in {"absent", "bad"} THEN [err |-> TRUE, Commits |-> 0]
    ELSE IF payload.k = "null" THEN [err |-> FALSE, Commits |-> 0]
    ELSE IF payload.commits.k = "bad" THEN [err |-> TRUE, Commits |-> 0]
    ELSE IF payload.commits.k = "array"
         THEN [err |-> FALSE, Commits |-> payload.commits.n]
    ELSE [err |-> FALSE, Commits |-> 0]

\* json.Unmarshal(payload, &p) for p ActionPayload.
UnmarshalAction(payload) ==
    IF payload.k \in {"absent", "bad"} THEN [err |-> TRUE, Action |-> <<>>]
    ELSE IF payload.k = "null" THEN [err |-> FALSE, Action |-> <<>>]
    ELSE [err |-> ~DecodeString(payload.action).ok,
          Action |-> DecodeString(payload.action).v]

\* json.Unmarshal(payload, &p) for p PullRequestPayload.
UnmarshalPullRequest(payload) ==
    IF payload.k \in {"absent", "bad"}
    THEN [err |-> TRUE, Action |-> <<>>, Merged |-> FALSE]
    ELSE IF payload.k = "null"
    THEN [err |-> FALSE, Action |-> <<>>, Merged |-> FALSE]
    ELSE LET a == DecodeString(payload.action)
             pr == payload.pull_request
             m == IF pr.k = "object" THEN DecodeBool(pr.merged)
                  ELSE IF pr.k = "bad" THEN [ok |-> FALSE, v |-> FALSE]
                  ELSE [ok |-> TRUE, v |-> FALSE]
         IN [err |-> ~(a.ok /\ m.ok), Action |-> a.v, Merged |-> m.v]

\* json.Unmarshal(payload, &p) for p CreatePayload.
UnmarshalCreate(payload) ==
    IF payload.k \in {"absent", "bad"}
    THEN [err |-> TRUE, RefType |-> "", Ref |-> <<>>]
    ELSE IF payload.k = "null"
    THEN [err |-> FALSE, RefType |-> "", Ref |-> <<>>]
    ELSE LET t == DecodeText(payload.ref_type)
             r == DecodeString(payload.ref)
         IN [err |-> ~(t.ok /\ r.ok), RefType |-> t.v, Ref |-> r.v]

-----------------------------------------------------------------------------
(* fmt *)

\* %q of a string of printable ASCII: double quotes around it, a backslash
\* before every double quote and backslash.
RECURSIVE Escape(_)
Escape(b) ==
    IF b = <<>> THEN <<>>
    ELSE (IF Head(b) \in {34, 92} THEN <<92, Head(b)>> ELSE <<Head(b)>>)
         \o Escape(Tail(b))

Quote(b) == Str(<<34>> \o Escape(b) \o <<34>>)

-----------------------------------------------------------------------------
(* verbCap, extractAction, formatEvent *)

verbCap(action) ==
    IF action = <<>> THEN <<>>
    ELSE IF Head(action) >= 97 /\ Head(action) <= 122
         THEN <<(Head(action) - (97 - 65)) % 256>> \o Tail(action)
         ELSE action

extractAction(payload) ==
    LET p == UnmarshalAction(payload)
    IN IF p.err THEN <<>> ELSE p.Action

formatPush(e) ==
    LET p == UnmarshalPush(e.Payload)
    IN IF p.err THEN "Pushed commits to " \o e.Repo
       ELSE IF p.Commits = 1 THEN "Pushed 1 commit to " \o e.Repo
       ELSE "Pushed " \o ToString(p.Commits) \o " commits to " \o e.Repo

formatIssues(e) ==
    LET a == extractAction(e.Payload)
        action == IF a = <<>> THEN <<117, 112, 100, 97, 116, 101, 100>> ELSE a
    IN Str(verbCap(action)) \o " an issue in " \o e.Repo

\* Faulty variant: the closed-and-merged case is not told apart.
formatPullRequest_nomerge(e) ==
    LET p == UnmarshalPullRequest(e.Payload)
    IN IF ~p.err /\ p.Action # <<>>
       THEN Str(verbCap(p.Action)) \o " a pull request in " \o e.Repo
       ELSE "Updated a pull request in " \o e.Repo

formatPullRequest(e) ==
    LET p == UnmarshalPullRequest(e.Payload)
    IN IF ~p.err /\ p.Action = B_closed /\ p.Merged
       THEN "Merged a pull request in " \o e.Repo
       ELSE IF ~p.err /\ p.Action # <<>>
       THEN Str(verbCap(p.Action)) \o " a pull request in " \o e.Repo
       ELSE "Updated a pull request in " \o e.Repo

formatCreate(e) ==
    LET p == UnmarshalCreate(e.Payload)
    IN IF p.err THEN "Created something in " \o e.Repo
       ELSE IF p.RefType = "repository" THEN "Created repository " \o e.Repo
       ELSE IF p.Ref # <<>>
       THEN "Created " \o p.RefType \o " " \o Quote(p.Ref) \o " in " \o e.Repo
       ELSE "Created " \o p.RefType \o " in " \o e.Repo

\* Faulty variant: the repository name is appended even when it is empty.
formatDefault_always(e) == e.Type \o " in " \o e.Repo

formatDefault(e) ==
    IF e.Repo # "" THEN e.Type \o " in " \o e.Repo ELSE e.Type

formatEvent(e) ==
    CASE e.Type = "PushEvent" -> formatPush(e)
      [] e.Type = "IssuesEvent" -> formatIssues(e)
      [] e.Type = "IssueCommentEvent" -> "Commented on an issue in " \o e.Repo
      [] e.Type = "PullRequestEvent" -> formatPullRequest(e)
      [] e.Type = "WatchEvent" -> "Starred " \o e.Repo
      [] e.Type = "ForkEvent" -> "Forked " \o e.Repo
      [] e.Type = "CreateEvent" -> formatCreate(e)
      [] OTHER -> formatDefault(e)

-----------------------------------------------------------------------------
(* The response body and its decoding into []Event *)

Event(type, repo, payload) == [Type |-> type, Repo |-> repo, Payload |-> payload]

JRepo(name) == [k |-> "object", name |-> name]
JEvent(type, repo, payload) ==
    [k |-> "object", type |-> type, repo |-> repo, payload |-> payload]

\* One element of the array stored into an Event.  null leaves the zero
\* Event; a non-object, or a type or repo.name that is no string, is a type
\* error; the payload is kept as raw JSON whatever it is.
DecodeEvent(el) ==
    IF el.k = "null" THEN [ok |-> TRUE, v |-> Event("", "", Absent)]
    ELSE IF el.k = "bad" THEN [ok |-> FALSE, v |-> Event("", "", Absent)]
    ELSE LET t == DecodeText(el.type)
             r == IF el.repo.k = "object" THEN DecodeText(el.repo.name)
                  ELSE IF el.repo.k = "bad" THEN [ok |-> FALSE, v |-> ""]
                  ELSE [ok |-> TRUE, v |-> ""]
         IN [ok |-> t.ok /\ r.ok, v |-> Event(t.v, r.v, el.payload)]

\* json.Unmarshal(body, &events): a body that is not JSON is a syntax error,
\* JSON that is neither null nor an array is a type error, and so is an
\* array with an element that does not fit Event; null leaves events nil.
DecodeEvents(b) ==
    IF b.k = "null" THEN [ok |-> TRUE, events |-> <<>>]
    ELSE IF b.k # "array" THEN [ok |-> FALSE, events |-> <<>>]
    ELSE IF \E j \in 1..Len(b.elems) : ~DecodeEvent(b.elems[j]).ok
         THEN [ok |-> FALSE, events |-> <<>>]
    ELSE [ok |-> TRUE,
          events |-> [j \in 1..Len(b.elems) |-> DecodeEvent(b.elems[j]).v]]

-----------------------------------------------------------------------------
(* fetchEvents *)

\* Faulty variant: a client built without Timeout never gives up.
NoTimeout == 10 * 0

ClientTimeout == 10      \* seconds; 0 is Go's value for no timeout

\* An error value: the format fmt.Errorf was given and its arguments.
NoError == [format |-> "nil", args |-> <<>>]
Errorf(format, a) == [format |-> format, args |-> a]
IsNil(err) == err.format = "nil"

Returned(evs, err) == [events |-> evs, err |-> err]

NoResponse == [StatusCode |-> 0, Status |-> ""]
NoBody == [k |-> "none"]
Responses ==
    {[StatusCode |-> 200, Status |-> "200 OK"],
     [StatusCode |-> 204, Status |-> "204 No Content"],
     [StatusCode |-> 403, Status |-> "403 Forbidden"],
     [StatusCode |-> 404, Status |-> "404 Not Found"],
     [StatusCode |-> 500, Status |-> "500 Internal Server Error"]}

\* Elements a response array is built from.
SampleElems ==
    {JEvent(JStr("PushEvent"), JRepo(JStr("octocat/hello")),
            JPayload(JCommits(1), Absent, Absent, Absent, Absent)),
     JEvent(JStr("PullRequestEvent"), JRepo(JStr("octocat/hello")),
            JPayload(Absent, JStr(B_closed), JPull(JBool(TRUE)), Absent, Absent)),
     JEvent(JStr("CreateEvent"), JRepo(JStr("octocat/hello")), Bad),
     JEvent(JStr("GollumEvent"), JRepo(JStr("octocat/hello")), Null),
     JEvent(Absent, Absent, Absent),
     JEvent(Bad, JRepo(JStr("octocat/hello")), Absent),
     Null,
     Bad}

RECURSIVE SeqsUpTo(_, _)
SeqsUpTo(S, n) ==
    IF n = 0 THEN {<<>>}
    ELSE SeqsUpTo(S, n - 1)
         \cup {Append(q, x) : q \in {r \in SeqsUpTo(S, n - 1) : Len(r) = n - 1},
                              x \in S}

\* Bodies: not JSON at all, null, JSON of another kind (an object, as the
\* API's error documents are), and arrays of up to MaxEvents elements.
Bodies ==
    {[k |-> "invalid"], [k |-> "null"], [k |-> "bad"]}
    \cup {[k |-> "array", elems |-> q] : q \in SeqsUpTo(SampleElems, MaxEvents)}

Usernames == {"octocat", "%zz"}
\* Identifiers url.Parse rejects (an invalid percent escape in the path).
InvalidURL == {"%zz"}
ArgVectors ==
    {<<"github-activity">>}
    \cup {<<"github-activity", u>> : u \in Usernames}
    \cup {<<"github-activity", u, "extra">> : u \in Usernames}

\* Faulty variant: the 403 and 404 cases exchanged.
Classify_swapped(user, r, b) ==
    IF r.StatusCode = 200
    THEN LET d == DecodeEvents(b)
         IN IF d.ok THEN Returned(d.events, NoError)
            ELSE Returned(<<>>, Errorf("invalid json %w", <<"json">>))
    ELSE IF r.StatusCode = 403
    THEN Returned(<<>>, Errorf("user %s not found", <<user>>))
    ELSE IF r.StatusCode = 404
    THEN Returned(<<>>, Errorf("forbidden 403, response %s", <<b>>))
    ELSE Returned(<<>>, Errorf("github api error %s resp: %s", <<r.Status, b>>))

\* The switch on res.StatusCode and the decoding that follows it.
Classify(user, r, b) ==
    IF r.StatusCode = 200
    THEN LET d == DecodeEvents(b)
         IN IF d.ok THEN Returned(d.events, NoError)
            ELSE Returned(<<>>, Errorf("invalid json %w", <<"json">>))
    ELSE IF r.StatusCode = 404
    THEN Returned(<<>>, Errorf("user %s not found", <<user>>))
    ELSE IF r.StatusCode = 403
    THEN Returned(<<>>, Errorf("forbidden 403, response %s", <<b>>))
    ELSE Returned(<<>>, Errorf("github api error %s resp: %s", <<r.Status, b>>))

\* fetchEvents returns: main goes on at its err check.
FetchReturns(r) ==
    /\ result' = r
    /\ pc' = "fetched"

\* http.NewRequest, and on success the call of client.Do, which starts the
\* client's timer and sends the request.
NewRequest ==
    /\ pc = "fetch"
    /\ IF username \in InvalidURL
       THEN /\ FetchReturns(Returned(<<>>, Errorf("%v", <<"parse">>)))
            /\ UNCHANGED <<requests, clock>>
       ELSE /\ pc' = "do"
            /\ requests' = requests + 1
            /\ clock' = 0
            /\ UNCHANGED result
    /\ UNCHANGED <<args, username, res, body, events, i, lines, calls,
                   stdout, stderr, exitCode>>

TimerRunning == ClientTimeout > 0 /\ pc \in {"do", "read"}
TimerExpired == TimerRunning /\ clock >= ClientTimeout

\* A second passes while fetchEvents waits for the network.
Tick ==
    /\ TimerRunning
    /\ clock < ClientTimeout
    /\ clock' = clock + 1
    /\ UNCHANGED <<pc, args, username, requests, res, body, result, events, i,
                   lines, calls, stdout, stderr, exitCode>>

\* client.Do returns a response: its status line and headers have arrived.
DoResponse ==
    /\ pc = "do"
    /\ ~TimerExpired
    /\ \E r \in Responses : res' = r
    /\ pc' = "read"
    /\ UNCHANGED <<args, username, clock, requests, body, result, events, i,
                   lines, calls, stdout, stderr, exitCode>>

\* Faulty variant: a failed request is sent once more.
DoError_retry ==
    /\ pc = "do"
    /\ IF requests < 2
       THEN pc' = "fetch" /\ UNCHANGED result
       ELSE FetchReturns(Returned(<<>>, Errorf("request failed %w", <<"dial">>)))
    /\ UNCHANGED <<args, username, clock, requests, res, body, events, i,
                   lines, calls, stdout, stderr, exitCode>>

\* client.Do returns an error other than the timeout (no route, refused,
\* connection reset before the headers).
DoError ==
    /\ pc = "do"
    /\ FetchReturns(Returned(<<>>, Errorf("request failed %w", <<"dial">>)))
    /\ UNCHANGED <<args, username, clock, requests, res, body, events, i,
                   lines, calls, stdout, stderr, exitCode>>

\* The client's timer expires before the headers arrive: client.Do returns
\* the timeout error.
DoTimeout ==
    /\ pc = "do"
    /\ TimerExpired
    /\ FetchReturns(Returned(<<>>, Errorf("request failed %w", <<"timeout">>)))
    /\ UNCHANGED <<args, username, clock, requests, res, body, events, i,
                   lines, calls, stdout, stderr, exitCode>>

\* io.ReadAll returns the whole body; the status switch and the decoding
\* follow without waiting.
ReadAll ==
    /\ pc = "read"
    /\ ~TimerExpired
    /\ \E b \in Bodies :
         /\ body' = b
         /\ FetchReturns(Classify(username, res, b))
    /\ UNCHANGED <<args, username, clock, requests, res, events, i,
                   lines, calls, stdout, stderr, exitCode>>

\* io.ReadAll returns an error other than the timeout (connection reset).
ReadError ==
    /\ pc = "read"
    /\ FetchReturns(Returned(<<>>, Errorf("failed to read response %w", <<"reset">>)))
    /\ UNCHANGED <<args, username, clock, requests, res, body, events, i,
                   lines, calls, stdout, stderr, exitCode>>

\* The client's timer expires while the body is read: io.ReadAll returns
\* the timeout error.
ReadTimeout ==
    /\ pc = "read"
    /\ TimerExpired
    /\ FetchReturns(Returned(<<>>, Errorf("failed to read response %w", <<"timeout">>)))
    /\ UNCHANGED <<args, username, clock, requests, res, body, events, i,
                   lines, calls, stdout, stderr, exitCode>>

-----------------------------------------------------------------------------
(* main *)

UsageLine == [text |-> "Use it this whay : github-activity <username>", err |-> NoError]
ErrorLine(err) == [text |-> "error", err |-> err]

Exit(code) ==
    /\ pc' = "exit"
    /\ exitCode' = <<code>>

\* Faulty variant: extra arguments are accepted.
MainStart_atleast ==
    /\ pc = "main"
    /\ IF Len(args) < 2
       THEN /\ stderr' = Append(stderr, UsageLine)
            /\ Exit(1)
            /\ UNCHANGED username
       ELSE /\ username' = args[2]
            /\ pc' = "fetch"
            /\ UNCHANGED <<stderr, exitCode>>
    /\ UNCHANGED <<args, clock, requests, res, body, result, events, i,
                   lines, calls, stdout>>

\* main up to the call of fetchEvents.
MainStart ==
    /\ pc = "main"
    /\ IF Len(args) # 2
       THEN /\ stderr' = Append(stderr, UsageLine)
            /\ Exit(1)
            /\ UNCHANGED username
       ELSE /\ username' = args[2]
            /\ pc' = "fetch"
            /\ UNCHANGED <<stderr, exitCode>>
    /\ UNCHANGED <<args, clock, requests, res, body, result, events, i,
                   lines, calls, stdout>>

\* Faulty variant: an empty result prints nothing.
MainFetched_silent ==
    /\ pc = "fetched"
    /\ events' = result.events
    /\ IF ~IsNil(result.err)
       THEN /\ stderr' = Append(stderr, ErrorLine(result.err))
            /\ Exit(1)
            /\ UNCHANGED <<stdout, i>>
       ELSE IF Len(result.events) = 0
       THEN /\ Exit(0)
            /\ UNCHANGED <<stdout, stderr, i>>
       ELSE /\ pc' = "loop"
            /\ i' = 1
            /\ UNCHANGED <<stdout, stderr, exitCode>>
    /\ UNCHANGED <<args, username, clock, requests, res, body, result,
                   lines, calls>>

\* main from the return of fetchEvents to the start of the range loop.
MainFetched ==
    /\ pc = "fetched"
    /\ events' = result.events
    /\ IF ~IsNil(result.err)
       THEN /\ stderr' = Append(stderr, ErrorLine(result.err))
            /\ Exit(1)
            /\ UNCHANGED <<stdout, i>>
       ELSE IF Len(result.events) = 0
       THEN /\ stdout' = Append(stdout, "no recent activity")
            /\ Exit(0)
            /\ UNCHANGED <<stderr, i>>
       ELSE /\ pc' = "loop"
            /\ i' = 1
            /\ UNCHANGED <<stdout, stderr, exitCode>>
    /\ UNCHANGED <<args, username, clock, requests, res, body, result,
                   lines, calls>>

\* Whether the payload decodes into the structure the event's type selects.
PayloadError(e) ==
    CASE e.Type = "PushEvent" -> UnmarshalPush(e.Payload).err
      [] e.Type = "IssuesEvent" -> UnmarshalAction(e.Payload).err
      [] e.Type = "PullRequestEvent" -> UnmarshalPullRequest(e.Payload).err
      [] e.Type = "CreateEvent" -> UnmarshalCreate(e.Payload).err
      [] OTHER -> FALSE

\* Faulty variant: a payload that does not decode aborts the run.
MainLoop_propagate ==
    /\ pc = "loop"
    /\ i <= Len(events)
    /\ LET e == events[i]
           line == formatEvent(e)
       IN /\ calls' = Append(calls, e)
          /\ lines' = Append(lines, line)
          /\ i' = i + 1
          /\ IF PayloadError(e)
             THEN /\ stderr' = Append(stderr, ErrorLine(Errorf("invalid json %w", <<"json">>)))
                  /\ Exit(1)
                  /\ UNCHANGED stdout
             ELSE /\ stdout' = IF line # "" THEN Append(stdout, "- " \o line) ELSE stdout
                  /\ IF i = Len(events) THEN Exit(0) ELSE UNCHANGED <<pc, exitCode>>
                  /\ UNCHANGED stderr
    /\ UNCHANGED <<args, username, clock, requests, res, body, result, events>>

\* Faulty variant: empty lines are printed too.
MainLoop_noskip ==
    /\ pc = "loop"
    /\ i <= Len(events)
    /\ LET e == events[i]
           line == formatEvent(e)
       IN /\ calls' = Append(calls, e)
          /\ lines' = Append(lines, line)
          /\ stdout' = Append(stdout, "- " \o line)
    /\ i' = i + 1
    /\ IF i = Len(events) THEN Exit(0) ELSE UNCHANGED <<pc, exitCode>>
    /\ UNCHANGED <<args, username, clock, requests, res, body, result, events,
                   stderr>>

\* One iteration of main's range loop; after the last one main returns.
MainLoop ==
    /\ pc = "loop"
    /\ i <= Len(events)
    /\ LET e == events[i]
           line == formatEvent(e)
       IN /\ calls' = Append(calls, e)
          /\ lines' = Append(lines, line)
          /\ stdout' = IF line # "" THEN Append(stdout, "- " \o line) ELSE stdout
    /\ i' = i + 1
    /\ IF i = Len(events) THEN Exit(0) ELSE UNCHANGED <<pc, exitCode>>
    /\ UNCHANGED <<args, username, clock, requests, res, body, result, events,
                   stderr>>

-----------------------------------------------------------------------------
(* Specifications *)

\* A run of the program from its start, on any argument vector.
Init ==
    /\ pc = "main"
    /\ args \in ArgVectors
    /\ username = ""
    /\ clock = 0
    /\ requests = 0
    /\ res = NoResponse
    /\ body = NoBody
    /\ result = Returned(<<>>, NoError)
    /\ events = <<>>
    /\ i = 0
    /\ lines = <<>>
    /\ calls = <<>>
    /\ stdout = <<>>
    /\ stderr = <<>>
    /\ exitCode = <<>>

Next ==
    \/ MainStart
    \/ NewRequest
    \/ Tick
    \/ DoResponse
    \/ DoError
    \/ DoTimeout
    \/ ReadAll
    \/ ReadError
    \/ ReadTimeout
    \/ MainFetched
    \/ MainLoop

Spec == Init /\ [][Next]_vars

\* The program's own steps are taken when they can be, time passes, and the
\* client's timer fires when it has expired.  Nothing is assumed of the
\* network: a response, a body or a network error may never come.
LiveSpec ==
    /\ Spec
    /\ WF_vars(MainStart)
    /\ WF_vars(NewRequest)
    /\ WF_vars(Tick)
    /\ WF_vars(DoTimeout)
    /\ WF_vars(ReadTimeout)
    /\ WF_vars(MainFetched)
    /\ WF_vars(MainLoop)

\* Every event object the model builds, alone or followed by one more.
AllElems == {JEvent(JStr(t), JRepo(JStr(r)), p) :
               t \in Types, r \in Repos, p \in Payloads}
PushOne == JEvent(JStr("PushEvent"), JRepo(JStr("octocat/hello")),
                  JPayload(JCommits(1), Absent, Absent, Absent, Absent))

\* main at the start of its range loop, fetchEvents having returned the
\* events of a 200 response.
FormatInit ==
    /\ pc = "loop"
    /\ args = <<"github-activity", "octocat">>
    /\ username = "octocat"
    /\ clock = 0
    /\ requests = 1
    /\ res = [StatusCode |-> 200, Status |-> "200 OK"]
    /\ \E el \in AllElems, rest \in {<<>>, <<PushOne>>} :
         /\ body = [k |-> "array", elems |-> <<el>> \o rest]
         /\ result = Classify("octocat", res, body)
         /\ events = result.events
    /\ i = 1
    /\ lines = <<>>
    /\ calls = <<>>
    /\ stdout = <<>>
    /\ stderr = <<>>
    /\ exitCode = <<>>

FormatSpec == FormatInit /\ [][MainLoop]_vars

-----------------------------------------------------------------------------
(* Vocabulary of the properties *)

\* fetchEvents has been called and has returned.
FetchReturned == pc \in {"fetched", "loop"} \/ (pc = "exit" /\ Len(args) = 2)
FetchSucceeded == FetchReturned /\ IsNil(result.err)

\* The text of a JSON string, empty for a key that is missing or null.
TextOf(v) == IF v.k = "string" THEN v.s ELSE ""
BytesOf(v) == IF v.k = "string" THEN v.s ELSE <<>>

\* An array element that has the shape of an event.
ElemFits(el) ==
    \/ el.k = "null"
    \/ /\ el.k = "object"
       /\ el.type.k # "bad"
       /\ el.repo.k # "bad"
       /\ el.repo.k = "object" => el.repo.name.k # "bad"

\* The event such an element stands for.
ExpectedEvent(el) ==
    IF el.k = "null" THEN Event("", "", Absent)
    ELSE Event(TextOf(el.type),
               IF el.repo.k = "object" THEN TextOf(el.repo.name) ELSE "",
               el.payload)

\* What main must have printed for the events it has formatted so far.
RECURSIVE PrintedFor(_)
PrintedFor(evs) ==
    IF evs = <<>> THEN <<>>
    ELSE (IF formatEvent(Head(evs)) # "" THEN <<"- " \o formatEvent(Head(evs))>>
          ELSE <<>>) \o PrintedFor(Tail(evs))

\* An event with neither a type tag nor a repository name.
Blank(e) == e.Type = "" /\ e.Repo = ""

\* A pull request payload, read as the specification's PullRequestPayload.
PRDecodes(p) ==
    \/ p.k = "null"
    \/ /\ p.k = "object"
       /\ p.action.k # "bad"
       /\ p.pull_request.k # "bad"
       /\ p.pull_request.k = "object" => p.pull_request.merged.k # "bad"
PRAction(p) == IF p.k = "object" THEN BytesOf(p.action) ELSE <<>>
PRMerged(p) ==
    /\ p.k = "object"
    /\ p.pull_request.k = "object"
    /\ p.pull_request.merged.k = "bool"
    /\ p.pull_request.merged.b
MergedClosed(p) == PRDecodes(p) /\ PRAction(p) = B_closed /\ PRMerged(p)

\* The first byte in upper case when it is an ASCII lower-case letter.
Capitalised(a) ==
    IF a # <<>> /\ a[1] \in 97..122
    THEN [a EXCEPT ![1] = a[1] - 32]
    ELSE a

TransportFailure(err) ==
    err.format \in {"request failed %w", "failed to read response %w"}

-----------------------------------------------------------------------------
(* Properties *)

\* C1: a run exits with code 1 and a usage message on the error stream when
\* the number of arguments is not one, with code 1 and an error message on
\* the error stream when fetchEvents returned an error, and with code 0 in
\* every other case; no other exit code occurs.
C1_ExitCodes ==
    /\ pc # "exit" => exitCode = <<>>
    /\ pc = "exit" =>
         /\ exitCode \in {<<0>>, <<1>>}
         /\ Len(args) # 2 =>
              /\ exitCode = <<1>>
              /\ Len(stderr) = 1 /\ stderr[1].text = UsageLine.text
         /\ Len(args) = 2 /\ ~IsNil(result.err) =>
              /\ exitCode = <<1>>
              /\ Len(stderr) = 1 /\ stderr[1].text = "error"
              /\ stderr[1].err.format = result.err.format
         /\ Len(args) = 2 /\ IsNil(result.err) => exitCode = <<0>>

C1_Witness ==
    pc = "exit" /\ Len(args) = 2 /\ exitCode = <<1>> /\ Len(stderr) = 1

\* C2, as claimed: once fetchEvents has a response, the status code alone
\* decides its result: 404 a not-found error naming the identifier, 403 a
\* forbidden error with the body, another non-200 an API error with status
\* and body, 200 the events of a JSON array in order or a decode error for
\* a malformed body.
C2_StatusAloneDecides ==
    (FetchReturned /\ res.StatusCode # 0) =>
        CASE res.StatusCode = 404 ->
               /\ result.err.format = "user %s not found"
               /\ result.err.args = <<username>>
          [] res.StatusCode = 403 ->
               /\ result.err.format = "forbidden 403, response %s"
               /\ result.err.args = <<body>>
          [] res.StatusCode = 200 ->
               /\ (body.k = "array"
                   /\ \A j \in 1..Len(body.elems) : ElemFits(body.elems[j])) =>
                    /\ IsNil(result.err)
                    /\ Len(result.events) = Len(body.elems)
               /\ body.k = "invalid" => result.err.format = "invalid json %w"
          [] OTHER ->
               /\ result.err.format = "github api error %s resp: %s"
               /\ result.err.args = <<res.Status, body>>

\* C2, amended: once fetchEvents has a response and has read its body to
\* the end, the status code decides its result as above; a 200 body that is
\* null gives no events, an array whose elements all have the shape of an
\* event gives those events in array order, and every other body a decode
\* error.
C2_StatusDecidesOnceBodyRead ==
    (FetchReturned /\ res.StatusCode # 0 /\ body.k # "none") =>
        CASE res.StatusCode = 404 ->
               /\ result.err.format = "user %s not found"
               /\ result.err.args = <<username>>
          [] res.StatusCode = 403 ->
               /\ result.err.format = "forbidden 403, response %s"
               /\ result.err.args = <<body>>
          [] res.StatusCode = 200 ->
               IF body.k = "null"
               THEN IsNil(result.err) /\ result.events = <<>>
               ELSE IF body.k = "array"
                       /\ \A j \in 1..Len(body.elems) : ElemFits(body.elems[j])
               THEN /\ IsNil(result.err)
                    /\ Len(result.events) = Len(body.elems)
                    /\ \A j \in 1..Len(body.elems) :
                         result.events[j] = ExpectedEvent(body.elems[j])
               ELSE result.err.format = "invalid json %w"
          [] OTHER ->
               /\ result.err.format = "github api error %s resp: %s"
               /\ result.err.args = <<res.Status, body>>

C2_Witness ==
    /\ pc = "fetched"
    /\ res.StatusCode = 200
    /\ IsNil(result.err)
    /\ Len(result.events) = 2
    /\ result.events[1].Type = "PushEvent"
    /\ result.events[2].Type = "PullRequestEvent"

\* C3: after a fetch that returned N >= 1 events, formatEvent is called
\* once per event, in the order of the events, N times by the end of the
\* run, and standard output is exactly the lines "- line" of the events
\* formatted so far whose line is not empty, in that order.
C3_OneLinePerEventInOrder ==
    (FetchSucceeded /\ Len(result.events) >= 1) =>
        /\ Len(calls) <= Len(result.events)
        /\ calls = SubSeq(result.events, 1, Len(calls))
        /\ pc = "loop" => Len(calls) = i - 1
        /\ pc = "exit" => Len(calls) = Len(result.events)
        /\ \A j \in 1..Len(calls) : lines[j] = formatEvent(calls[j])
        /\ Len(lines) = Len(calls)
        /\ stdout = PrintedFor(calls)

C3_Witness ==
    /\ pc = "exit"
    /\ Len(calls) = 2
    /\ Blank(calls[1])
    /\ stdout = <<"- Pushed 1 commit to octocat/hello">>

\* C4: once fetchEvents has succeeded no event makes the run fail: whatever
\* its type and payload, formatEvent returns a line, the loop goes on with
\* the next event, nothing is written to the error stream and the run ends
\* with exit code 0.
C4_NoEventFailsTheRun ==
    FetchSucceeded =>
        /\ stderr = <<>>
        /\ pc \in {"loop", "exit"}
        /\ pc = "loop" => /\ exitCode = <<>>
                          /\ i <= Len(events)
                          /\ Len(calls) = i - 1
        /\ pc = "exit" => /\ exitCode = <<0>>
                          /\ Len(calls) = Len(events)
                          /\ Len(lines) = Len(events)

C4_Witness ==
    /\ pc = "exit"
    /\ Len(calls) = 2
    /\ PayloadError(calls[1])
    /\ exitCode = <<0>>

\* C5, as claimed: a PushEvent is rendered "Pushed 1 commit to R" for one
\* commit, "Pushed n commits to R" for n # 1 commits, and "Pushed commits
\* to R" when the payload has no commits field or cannot be decoded.
C5_PushLines ==
    \A j \in 1..Len(calls) :
        calls[j].Type = "PushEvent" =>
            LET p == calls[j].Payload
                R == calls[j].Repo
            IN IF p.k = "object" /\ p.commits.k = "array"
               THEN lines[j] = IF p.commits.n = 1
                               THEN "Pushed 1 commit to " \o R
                               ELSE "Pushed " \o ToString(p.commits.n)
                                    \o " commits to " \o R
               ELSE IF p.k = "object" /\ p.commits.k = "absent"
               THEN lines[j] = "Pushed commits to " \o R
               ELSE IF p.k \in {"absent", "bad"}
                       \/ (p.k = "object" /\ p.commits.k = "bad")
               THEN lines[j] = "Pushed commits to " \o R
               ELSE TRUE

\* C6, as claimed: formatEvent never returns the empty string, so a run
\* with N fetched events prints N lines.
C6_NeverEmpty ==
    /\ \A j \in 1..Len(lines) : lines[j] # ""
    /\ (pc = "exit" /\ FetchSucceeded /\ events # <<>>) => Len(stdout) = Len(events)

\* C6, amended: formatEvent returns the empty string exactly for an event
\* whose type tag and repository name are both empty; a run with N fetched
\* events prints one line for each of them but those.
C6_EmptyOnlyForBlankEvent ==
    /\ \A j \in 1..Len(lines) : lines[j] = "" <=> Blank(calls[j])
    /\ (pc = "exit" /\ FetchSucceeded /\ events # <<>>) =>
         Len(stdout) = Len(events)
                       - Cardinality({j \in 1..Len(events) : Blank(events[j])})

C6_Witness ==
    /\ pc = "exit"
    /\ Len(events) = 2
    /\ Blank(events[1])
    /\ lines[1] = ""
    /\ Len(stdout) = 1

\* C7: after a fetch that returned no event, standard output is the single
\* line "no recent activity", the error stream is empty and the exit code
\* is 0; and that line is printed in no other run.
C7_NoRecentActivity ==
    /\ (pc = "exit" /\ FetchSucceeded /\ result.events = <<>>) =>
         /\ stdout = <<"no recent activity">>
         /\ stderr = <<>>
         /\ exitCode = <<0>>
    /\ (\E j \in 1..Len(stdout) : stdout[j] = "no recent activity") =>
         /\ pc = "exit"
         /\ FetchSucceeded
         /\ result.events = <<>>

C7_Witness ==
    /\ pc = "exit"
    /\ body.k = "array"
    /\ body.elems = <<>>
    /\ stdout = <<"no recent activity">>

C9_NeverHangs ==
    /\ <>(pc = "exit" /\ exitCode # <<>>)
    /\ TimerExpired ~> (/\ pc = "exit"
                        /\ exitCode = <<1>>
                        /\ TransportFailure(result.err))

C9_Witness ==
    /\ pc = "exit"
    /\ result.err.format = "failed to read response %w"
    /\ result.err.args = <<"timeout">>

\* C10, as claimed: a PullRequestEvent is rendered "Merged a pull request
\* in R" exactly when the payload decodes with action closed and merged
\* true; otherwise with its capitalised action when that is not empty; and
\* "Updated a pull request in R" when the action is empty or the payload
\* does not decode.
C10_MergedExactlyWhen ==
    \A j \in 1..Len(calls) :
        calls[j].Type = "PullRequestEvent" =>
            LET p == calls[j].Payload
                R == calls[j].Repo
            IN /\ lines[j] = "Merged a pull request in " \o R <=> MergedClosed(p)
               /\ (~MergedClosed(p) /\ PRDecodes(p) /\ PRAction(p) # <<>>) =>
                    lines[j] = Str(Capitalised(PRAction(p)))
                               \o " a pull request in " \o R
               /\ (~PRDecodes(p) \/ PRAction(p) = <<>>) =>
                    lines[j] = "Updated a pull request in " \o R

\* C10, amended: the same, except that "Merged a pull request in R" is also
\* what the second rule gives for a payload whose own action is "merged" or
\* "Merged": the line is "Merged ..." whenever the payload decodes with
\* action closed and merged true, and only then or for such an action.
C10_PullRequestLines ==
    \A j \in 1..Len(calls) :
        calls[j].Type = "PullRequestEvent" =>
            LET p == calls[j].Payload
                R == calls[j].Repo
            IN /\ MergedClosed(p) => lines[j] = "Merged a pull request in " \o R
               /\ lines[j] = "Merged a pull request in " \o R =>
                    \/ MergedClosed(p)
                    \/ PRDecodes(p) /\ Str(PRAction(p)) \in {"merged", "Merged"}
               /\ (~MergedClosed(p) /\ PRDecodes(p) /\ PRAction(p) # <<>>) =>
                    lines[j] = Str(Capitalised(PRAction(p)))
                               \o " a pull request in " \o R
               /\ (~PRDecodes(p) \/ PRAction(p) = <<>>) =>
                    lines[j] = "Updated a pull request in " \o R
               /\ (PRDecodes(p) /\ PRAction(p) = B_closed /\ ~PRMerged(p)) =>
                    lines[j] = "Closed a pull request in " \o R

C10_Witness ==
    /\ pc = "exit"
    /\ calls[1].Type = "PullRequestEvent"
    /\ MergedClosed(calls[1].Payload)
    /\ lines[1] = "Merged a pull request in octocat/hello"

====
